---- MODULE Spec2Model ----
(***************************************************************************)
(* WalletContractV4 (src/src/wallets/WalletContractV4.ts): a wallet value  *)
(* object built by create(), and its operations against a contract         *)
(* provider.  Every await of the source is a step of its own, so calls of  *)
(* several callers interleave at the points where the source yields.       *)
(***************************************************************************)
EXTENDS Integers, Sequences, FiniteSets, TLC

VARIABLES
    wallets,    \* wallet name -> the WalletContractV4 object (or none / threw)
    ctorArgs,   \* wallet name -> the arguments create() was called with
    calls,      \* caller -> the call this caller has in flight or has finished
    chain       \* the contract's state as the provider sees it

vars == <<wallets, ctorArgs, calls, chain>>

----------------------------------------------------------------------------
(* Bounds *)

MaxSeqno == 1       \* highest seqno the modelled chain reaches
KeyLen == 2         \* bytes of a modelled public key

----------------------------------------------------------------------------
(* JavaScript values: Maybe<T> is T | null | undefined *)

Undefined == [t |-> "undefined"]
Null == [t |-> "null"]
Num(n) == [t |-> "num", v |-> n]
Bool(b) == [t |-> "bool", v |-> b]

Wallets == {"w1", "w2"}
Callers == {"c1", "c2"}

----------------------------------------------------------------------------
(* Cells: beginCell() ... endCell() of @ton/core, as the bit string built *)

NoCell == [ok |-> FALSE, error |-> "RangeError"]

beginCell == [ok |-> TRUE, bits |-> <<>>]

RECURSIVE UintBits(_, _)
UintBits(v, n) == IF n = 0 THEN <<>> ELSE Append(UintBits(v \div 2, n - 1), v % 2)

\* 0 <= v < 2^n for the widths used here (8 and 32); 2^32 is 65536 * 65536
FitsUint(v, n) ==
    /\ v >= 0
    /\ IF n = 32 THEN v \div 65536 < 65536 ELSE v < 2 ^ n

storeUint(b, v, n) ==
    IF ~b.ok THEN b
    ELSE IF ~FitsUint(v, n) THEN NoCell
    ELSE [ok |-> TRUE, bits |-> b.bits \o UintBits(v, n)]

RECURSIVE BufferBits(_)
BufferBits(buf) ==
    IF buf = <<>> THEN <<>> ELSE UintBits(Head(buf), 8) \o BufferBits(Tail(buf))

storeBuffer(b, buf) ==
    IF ~b.ok THEN b ELSE [ok |-> TRUE, bits |-> b.bits \o BufferBits(buf)]

storeBit(b, bit) ==
    IF ~b.ok THEN b ELSE [ok |-> TRUE, bits |-> Append(b.bits, bit)]

\* Cell.fromBoc(Buffer.from("te6cc...", "base64"))[0]: the fixed v4 code cell
WalletCode == [ok |-> TRUE, boc |-> "te6ccgECFAEAAtQAART"]

\* contractAddress(workchain, init): the workchain and the hash of the state
\* init, which determines and is determined by (code, data)
contractAddress(workchain, init) ==
    [workchain |-> workchain, hash |-> <<init.code, init.data>>]

----------------------------------------------------------------------------
(* Construction *)

DefaultWalletIdBase == 698983191

ResolveWalletIdTruthy(workchain, walletId) ==
    IF walletId # Null /\ walletId # Undefined /\ walletId.v # 0
    THEN walletId.v
    ELSE DefaultWalletIdBase + workchain

ResolveWalletId(workchain, walletId) ==
    IF walletId # Null /\ walletId # Undefined
    THEN walletId.v
    ELSE DefaultWalletIdBase + workchain

InitialData(walletId, publicKey) ==
    storeBit(storeBuffer(storeUint(storeUint(beginCell, 0, 32), walletId, 32),
                         publicKey), 0)

NoWallet == [state |-> "none"]

MakeWallet(workchain, publicKey, id, data) ==
    LET init == [code |-> WalletCode, data |-> data]
    IN  IF ~data.ok
        THEN [state |-> "threw", error |-> data.error]
        ELSE [state |-> "ok",
              workchain |-> workchain,
              publicKey |-> publicKey,
              walletId |-> id,
              init |-> init,
              address |-> contractAddress(workchain, init)]

\* the data cell takes the walletId argument, not the resolved this.walletId
constructorRawId(workchain, publicKey, walletId) ==
    MakeWallet(workchain, publicKey, ResolveWalletId(workchain, walletId),
               InitialData(IF walletId = Null \/ walletId = Undefined
                           THEN 0 ELSE walletId.v, publicKey))

\* new WalletContractV4(workchain, publicKey, walletId)
constructor(workchain, publicKey, walletId) ==
    LET id == ResolveWalletId(workchain, walletId)
    IN  MakeWallet(workchain, publicKey, id, InitialData(id, publicKey))

create(args) == constructor(args.workchain, args.publicKey, args.walletId)

PublicKeys ==
    {[i \in 1..KeyLen |-> (37 * i) % 256], [i \in 1..KeyLen |-> 256 - i]}

Workchains == {0, -1}

CreateArgs ==
    [workchain : Workchains,
     publicKey : PublicKeys,
     walletId : {Undefined, Null, Num(0), Num(1), Num(DefaultWalletIdBase - 1),
                 Num(DefaultWalletIdBase), Num(2147483647), Num(-1)}]

Create(w, args) ==
    /\ wallets[w] = NoWallet
    /\ wallets' = [wallets EXCEPT ![w] = create(args)]
    /\ ctorArgs' = [ctorArgs EXCEPT ![w] = args]
    /\ UNCHANGED <<calls, chain>>

----------------------------------------------------------------------------
(* The provider's contract: an environment the wallet only reads and submits to *)

InitialBalance == 5

\* every accepted transfer raises the seqno and spends one unit of balance
ChainStates ==
    {st \in [type : {"uninit", "active", "frozen"}, seqno : 0..MaxSeqno,
             balance : 0..InitialBalance] :
        /\ st.type = "uninit" => st.seqno = 0
        /\ st.balance = IF st.seqno < InitialBalance
                        THEN InitialBalance - st.seqno ELSE 0}

\* the ledger moves on its own: deployment, an accepted transfer, freezing,
\* unfreezing
ChainStep ==
    /\ \E st \in ChainStates :
          /\ \/ chain.type = "uninit" /\ st.type = "active"
             \/ chain.type = "active" /\ st.type = "active"
                                      /\ st.seqno = chain.seqno + 1
             \/ chain.type = "active" /\ st.type = "frozen"
                                      /\ st.seqno = chain.seqno
             \/ chain.type = "frozen" /\ st.type = "active"
                                      /\ st.seqno = chain.seqno
          /\ chain' = st
    /\ UNCHANGED <<wallets, ctorArgs, calls>>

ProviderErrors == {"Timeout"}
SignErrors == {"SignError"}
NoFault == "none"

\* ContractState returned by provider.getState()
StateOf(st) == [balance |-> st.balance, state |-> [type |-> st.type]]

\* res.stack of provider.get("seqno", [])
StackOf(st) == <<[type |-> "int", value |-> st.seqno]>>

\* TupleReader.readNumber(): pops an int item
readNumber(stack) ==
    IF stack # <<>> /\ Head(stack).type = "int"
    THEN [ok |-> TRUE, value |-> Head(stack).value]
    ELSE [ok |-> FALSE, error |-> "Not a number"]

----------------------------------------------------------------------------
(* Transfers *)

PAY_GAS_SEPARATELY == 1

EmptyCell == [ok |-> TRUE, bits |-> <<>>]

IsNullish(v) == v = Null \/ v = Undefined

\* internal(src) of @ton/core: a relaxed internal message
internal(src) ==
    [info |-> [type |-> "internal",
               dest |-> src.to,
               value |-> src.value,
               bounce |-> IF IsNullish(src.bounce) THEN TRUE ELSE src.bounce.v],
     init |-> IF IsNullish(src.init) THEN Undefined ELSE src.init,
     body |-> IF IsNullish(src.body) THEN EmptyCell ELSE src.body]

\* createWalletTransferV4(args): the signed external message body, fixed by
\* its arguments; the signing routine may throw instead
createWalletTransferV4(args, fault) ==
    IF fault # NoFault
    THEN [ok |-> FALSE, error |-> fault, args |-> args]
    ELSE [ok |-> TRUE, cell |-> [signedTransfer |-> args], args |-> args]

\* { ...args, sendMode: ..., walletId: ... }
Spread(args, sendMode, walletId) ==
    [f \in DOMAIN args \cup {"sendMode", "walletId"} |->
        IF f = "sendMode" THEN sendMode
        ELSE IF f = "walletId" THEN walletId
        ELSE args[f]]

\* args.sendMode || SendMode.PAY_GAS_SEPARATELY
createTransferFalsy(this, args, fault) ==
    createWalletTransferV4(
        Spread(args,
               IF IsNullish(args.sendMode) \/ args.sendMode.v = 0
               THEN PAY_GAS_SEPARATELY ELSE args.sendMode.v,
               this.walletId),
        fault)

\* this.createTransfer(args)
createTransfer(this, args, fault) ==
    createWalletTransferV4(
        Spread(args,
               IF IsNullish(args.sendMode) THEN PAY_GAS_SEPARATELY
               ELSE args.sendMode.v,
               this.walletId),
        fault)

----------------------------------------------------------------------------
(* Calls: one record per caller, holding the call's locals and what it has
   asked of the provider and of the signing helper so far *)

NoCall ==
    [op |-> "idle", this |-> "none", args |-> Undefined, pc |-> "idle",
     req |-> Undefined, seqno |-> Undefined, signed |-> Undefined,
     transfer |-> Undefined, trace |-> <<>>, status |-> "idle",
     result |-> Undefined, error |-> NoFault, signThrew |-> NoFault]

Start(op, w, args, pc) ==
    [NoCall EXCEPT !.op = op, !.this = w, !.args = args, !.pc = pc,
                   !.status = "running"]

Return(call, value) ==
    [call EXCEPT !.pc = "done", !.status = "ok", !.result = value]

Throw(call, e) ==
    [call EXCEPT !.pc = "done", !.status = "error", !.error = e]

CanStart(c, w) ==
    /\ calls[c].pc = "idle"
    /\ wallets[w].state = "ok"

Begin(c, call) ==
    /\ calls' = [calls EXCEPT ![c] = call]
    /\ UNCHANGED <<wallets, ctorArgs, chain>>

Resume(c, call) ==
    /\ calls' = [calls EXCEPT ![c] = call]
    /\ UNCHANGED <<wallets, ctorArgs, chain>>

\* an error of the signing routine is caught and the call goes on to send
BuildAndSendSwallow(call, targs, fault) ==
    LET t == createTransfer(wallets[call.this], targs, fault)
    IN  IF t.ok
        THEN [call EXCEPT !.signed = t.args, !.transfer = t.cell,
                          !.pc = "external"]
        ELSE [call EXCEPT !.signed = t.args, !.signThrew = t.error,
                          !.pc = "external"]

\* let transfer = this.createTransfer(args); await this.send(provider, transfer);
\* up to the call of provider.external; signed and signThrew keep what the
\* signing routine was handed and what it threw
BuildAndSend(call, targs, fault) ==
    LET t == createTransfer(wallets[call.this], targs, fault)
    IN  IF t.ok
        THEN [call EXCEPT !.signed = t.args, !.transfer = t.cell,
                          !.pc = "external"]
        ELSE Throw([call EXCEPT !.signed = t.args, !.signThrew = t.error],
                   t.error)

\* sender.sends collecting its messages last first
SenderMessagesReversed(call) ==
    IF call.op = "sender.send"
    THEN <<internal([to |-> call.args.args.to, value |-> call.args.args.value,
                     init |-> call.args.args.init, body |-> call.args.args.body,
                     bounce |-> call.args.args.bounce])>>
    ELSE [i \in 1..Len(call.args.args.msgs) |->
             internal(call.args.args.msgs[Len(call.args.args.msgs) + 1 - i])]

\* the messages sender.send and sender.sends hand to createTransfer
SenderMessages(call) ==
    IF call.op = "sender.send"
    THEN <<internal([to |-> call.args.args.to, value |-> call.args.args.value,
                     init |-> call.args.args.init, body |-> call.args.args.body,
                     bounce |-> call.args.args.bounce])>>
    ELSE [i \in 1..Len(call.args.args.msgs) |->
             internal([to |-> call.args.args.msgs[i].to,
                       value |-> call.args.args.msgs[i].value,
                       init |-> call.args.args.msgs[i].init,
                       body |-> call.args.args.msgs[i].body,
                       bounce |-> call.args.args.msgs[i].bounce])]

SenderTransferArgs(call, seqno) ==
    [seqno |-> seqno,
     secretKey |-> call.args.secretKey,
     sendMode |-> call.args.args.sendMode,
     messages |-> SenderMessages(call)]

\* what follows `await this.getSeqno(provider)` settling with n: getSeqno
\* called directly has returned n; in sender.send / sender.sends the inner
\* getSeqno has returned and the sender itself resumes in a later turn
AfterSeqno(call, n) ==
    IF call.op = "getSeqno" THEN Return(call, Num(n))
    ELSE [call EXCEPT !.seqno = Num(n), !.pc = "seqno"]

\* a wallet that keeps the seqno of its last transfer and reuses it
SenderContinueCached(call, fault) ==
    LET earlier == {d \in Callers : /\ calls[d].this = call.this
                                    /\ calls[d].signed # Undefined}
    IN  BuildAndSend(call,
                     SenderTransferArgs(call,
                         IF earlier = {} THEN call.seqno.v
                         ELSE calls[CHOOSE d \in earlier : TRUE].signed.seqno),
                     fault)

\* a wallet that counts its own transfers and never reuses a seqno in flight
SenderContinueCounter(call, fault) ==
    LET taken == {d \in Callers : /\ calls[d].this = call.this
                                  /\ calls[d].status = "running"
                                  /\ calls[d].signed # Undefined
                                  /\ calls[d].signed.seqno = call.seqno.v}
    IN  BuildAndSend(call,
                     SenderTransferArgs(call,
                         IF taken = {} THEN call.seqno.v ELSE call.seqno.v + 1),
                     fault)

\* sender.send / sender.sends from `let seqno = ...` on: the messages, the
\* transfer, and this.send up to the call of provider.external
SenderContinue(call, fault) ==
    BuildAndSend(call, SenderTransferArgs(call, call.seqno.v), fault)

----------------------------------------------------------------------------
(* Invocations *)

SecretKeys == {"sk"}

\* a message Cell handed to send()
SignedCells == {[signedTransfer |-> "external"]}

Msg(to, bounce) ==
    [to |-> to, value |-> 1, init |-> Undefined, body |-> Undefined,
     bounce |-> bounce]

\* SenderArguments of sender.send
SenderSendArgs ==
    {[to |-> m.to, value |-> m.value, init |-> m.init, body |-> m.body,
      bounce |-> m.bounce, sendMode |-> sm] :
        m \in {Msg("EQB", Bool(FALSE))}, sm \in {Num(0)}}

\* the argument of sender.sends
SenderSendsArgs ==
    [sendMode : {Undefined},
     msgs : {<<Msg("EQA", Undefined), Msg("EQB", Null)>>}]

\* args of sendTransfer / createTransfer as the operations use them
TransferArgs ==
    [seqno : {MaxSeqno}, secretKey : SecretKeys,
     messages : {<<internal(Msg("EQA", Undefined))>>},
     sendMode : {Num(0)}, timeout : {Undefined}]

SignFaults == {NoFault} \cup SignErrors
ProviderFaults == {NoFault} \cup ProviderErrors

\* getBalance(provider), up to `await provider.getState()`
getBalance(c, w) ==
    /\ CanStart(c, w)
    /\ Begin(c, Start("getBalance", w, Undefined, "getState"))

\* getSeqno(provider), up to `await provider.getState()`
getSeqno(c, w) ==
    /\ CanStart(c, w)
    /\ Begin(c, Start("getSeqno", w, Undefined, "getState"))

\* send(provider, message), up to `await provider.external(message)`
send(c, w, message) ==
    /\ CanStart(c, w)
    /\ Begin(c, [Start("send", w, [message |-> message], "external")
                    EXCEPT !.transfer = message])

\* sendTransfer(provider, args), up to the await inside this.send
sendTransfer(c, w, args, fault) ==
    /\ CanStart(c, w)
    /\ Begin(c, BuildAndSend(Start("sendTransfer", w, args, "build"), args, fault))

\* createTransfer(args), a synchronous call
createTransferCall(c, w, args, fault) ==
    /\ CanStart(c, w)
    /\ LET t == createTransfer(wallets[w], args, fault)
           call == [Start("createTransfer", w, args, "build")
                       EXCEPT !.signed = t.args,
                              !.signThrew = IF t.ok THEN NoFault ELSE t.error]
       IN  Begin(c, IF t.ok THEN Return(call, t.cell) ELSE Throw(call, t.error))

\* sender(provider, secretKey).send(args), up to `await provider.getState()`
sender_send(c, w, secretKey, args) ==
    /\ CanStart(c, w)
    /\ Begin(c, Start("sender.send", w,
                      [secretKey |-> secretKey, args |-> args], "getState"))

\* sender(provider, secretKey).sends(args), up to `await provider.getState()`
sender_sends(c, w, secretKey, args) ==
    /\ CanStart(c, w)
    /\ Begin(c, Start("sender.sends", w,
                      [secretKey |-> secretKey, args |-> args], "getState"))

----------------------------------------------------------------------------
(* Provider round trips: each completes one await and runs the caller on to
   its next await or to its end *)

\* the trace keeps each provider call with its outcome; a fulfilled read also
\* keeps the seqno the contract had when the provider answered
Logged(call, entry) == [call EXCEPT !.trace = Append(@, entry)]

\* getSeqno asks the getter whenever the contract is deployed, frozen or not
AfterStateNotUninit(call, state) ==
    IF call.op = "getBalance" THEN Return(call, Num(state.balance))
    ELSE IF state.state.type # "uninit"
    THEN [call EXCEPT !.pc = "get", !.req = [name |-> "seqno", args |-> <<>>]]
    ELSE AfterSeqno(call, 0)

\* what follows `let state = await provider.getState()`
AfterState(call, state) ==
    IF call.op = "getBalance" THEN Return(call, Num(state.balance))
    ELSE IF state.state.type = "active"
    THEN [call EXCEPT !.pc = "get", !.req = [name |-> "seqno", args |-> <<>>]]
    ELSE AfterSeqno(call, 0)

\* a failed state read is taken for an undeployed contract
GetStateResultSwallow(call, fault) ==
    IF fault # NoFault
    THEN IF call.op = "getBalance"
         THEN Throw(Logged(call, [kind |-> "getState", ok |-> FALSE,
                                  error |-> fault]), fault)
         ELSE AfterSeqno(Logged(call, [kind |-> "getState", ok |-> FALSE,
                                       error |-> fault]), 0)
    ELSE AfterState(Logged(call, [kind |-> "getState", ok |-> TRUE,
                                  ret |-> StateOf(chain),
                                  chainSeqno |-> chain.seqno]),
                    StateOf(chain))

\* `await provider.getState()` settles: rejected with fault, or fulfilled
GetStateResult(call, fault) ==
    IF fault # NoFault
    THEN Throw(Logged(call, [kind |-> "getState", ok |-> FALSE,
                             error |-> fault]), fault)
    ELSE AfterState(Logged(call, [kind |-> "getState", ok |-> TRUE,
                                  ret |-> StateOf(chain),
                                  chainSeqno |-> chain.seqno]),
                    StateOf(chain))

ProviderGetState(c, fault) ==
    /\ calls[c].pc = "getState"
    /\ Resume(c, GetStateResult(calls[c], fault))

\* the provider runs a get method: only on an active contract
RunGet(req, fault) ==
    IF fault # NoFault THEN [ok |-> FALSE, error |-> fault]
    ELSE IF chain.type # "active" \/ req.name # "seqno" \/ req.args # <<>>
    THEN [ok |-> FALSE, error |-> "ExitCode"]
    ELSE [ok |-> TRUE, stack |-> StackOf(chain)]

\* a rejected get is asked again instead of being thrown
GetResultRetry(call, fault) ==
    LET res == RunGet(call.req, fault)
        base == [kind |-> "get", name |-> call.req.name, args |-> call.req.args]
    IN  IF ~res.ok
        THEN Logged(call, base @@ [ok |-> FALSE, error |-> res.error])
        ELSE AfterSeqno(Logged(call, base @@ [ok |-> TRUE, ret |-> res.stack,
                                              chainSeqno |-> chain.seqno]),
                        readNumber(res.stack).value)

\* `await provider.get("seqno", [])` settles, then res.stack.readNumber()
GetResult(call, fault) ==
    LET res == RunGet(call.req, fault)
        base == [kind |-> "get", name |-> call.req.name, args |-> call.req.args]
    IN  IF ~res.ok
        THEN Throw(Logged(call, base @@ [ok |-> FALSE, error |-> res.error]),
                   res.error)
        ELSE LET n == readNumber(res.stack)
                 logged == Logged(call, base @@ [ok |-> TRUE, ret |-> res.stack,
                                                 chainSeqno |-> chain.seqno])
             IN  IF n.ok THEN AfterSeqno(logged, n.value)
                 ELSE Throw(logged, n.error)

ProviderGet(c, fault) ==
    /\ calls[c].pc = "get"
    /\ Resume(c, GetResult(calls[c], fault))

\* the sender resumes with the seqno its getSeqno returned
SenderResume(c, fault) ==
    /\ calls[c].pc = "seqno"
    /\ Resume(c, SenderContinue(calls[c], fault))

\* `await provider.external(message)` settles
ExternalResult(call, fault) ==
    IF fault # NoFault
    THEN Throw(Logged(call, [kind |-> "external", message |-> call.transfer,
                             ok |-> FALSE, error |-> fault]), fault)
    ELSE Return(Logged(call, [kind |-> "external", message |-> call.transfer,
                              ok |-> TRUE]), Undefined)

\* a wallet that mirrors the chain's seqno in its own data cell
ProviderExternalTracks(c, fault) ==
    /\ calls[c].pc = "external"
    /\ calls' = [calls EXCEPT ![c] = ExternalResult(calls[c], fault)]
    /\ wallets' = [wallets EXCEPT ![calls[c].this].init.data =
                      storeBit(storeBuffer(storeUint(storeUint(beginCell, 1, 32),
                          wallets[calls[c].this].walletId, 32),
                          wallets[calls[c].this].publicKey), 0)]
    /\ UNCHANGED <<ctorArgs, chain>>

ProviderExternal(c, fault) ==
    /\ calls[c].pc = "external"
    /\ Resume(c, ExternalResult(calls[c], fault))

\* the caller takes the settled promise's outcome and is free to call again
Settled(c) ==
    /\ calls[c].pc = "done"
    /\ Resume(c, NoCall)

----------------------------------------------------------------------------
(* Specifications *)

\* the wallets the operations run on: one with the default id, one with id 0
MainCreateArgs ==
    [w \in Wallets |->
        [workchain |-> 0,
         publicKey |-> CHOOSE k \in PublicKeys : TRUE,
         walletId |-> IF w = "w1" THEN Undefined ELSE Num(0)]]

Init ==
    /\ ctorArgs = MainCreateArgs
    /\ wallets = [w \in Wallets |-> create(ctorArgs[w])]
    /\ calls = [c \in Callers |-> NoCall]
    /\ chain = [type |-> "uninit", seqno |-> 0, balance |-> InitialBalance]

InvokeBy(c) ==
    \E w \in Wallets :
        \/ getBalance(c, w)
        \/ getSeqno(c, w)
        \/ \E m \in SignedCells : send(c, w, m)
        \/ \E a \in TransferArgs, f \in SignFaults : sendTransfer(c, w, a, f)
        \/ \E a \in TransferArgs, f \in SignFaults : createTransferCall(c, w, a, f)
        \/ \E k \in SecretKeys, a \in SenderSendArgs : sender_send(c, w, k, a)
        \/ \E k \in SecretKeys, a \in SenderSendsArgs : sender_sends(c, w, k, a)

SettleBy(c) ==
    \E f \in ProviderFaults :
        \/ ProviderGetState(c, f)
        \/ ProviderGet(c, f)
        \/ ProviderExternal(c, f)

ContinueBy(c) == \E f \in SignFaults : SenderResume(c, f)

Invoke == \E c \in Callers : InvokeBy(c)

Settle == \E c \in Callers : SettleBy(c)

Continue == \E c \in Callers : ContinueBy(c)

Next ==
    Invoke \/ Settle \/ Continue \/ (\E c \in Callers : Settled(c)) \/ ChainStep

Spec == Init /\ [][Next]_vars

\* construction alone, over the whole range of create()'s arguments
InitCreate ==
    /\ wallets = [w \in Wallets |-> NoWallet]
    /\ ctorArgs = [w \in Wallets |-> Undefined]
    /\ calls = [c \in Callers |-> NoCall]
    /\ chain = [type |-> "uninit", seqno |-> 0, balance |-> InitialBalance]

NextCreate == \E w \in Wallets, a \in CreateArgs : Create(w, a)

SpecCreate == InitCreate /\ [][NextCreate]_vars

\* wallets constructed while one caller runs the operations on those built
LifeCreateArgs ==
    [workchain : Workchains,
     publicKey : PublicKeys,
     walletId : {Undefined, Num(DefaultWalletIdBase),
                 Num(DefaultWalletIdBase - 1)}]

NextLife ==
    \/ \E w \in Wallets, a \in LifeCreateArgs : Create(w, a)
    \/ InvokeBy("c1")
    \/ SettleBy("c1")
    \/ ContinueBy("c1")
    \/ Settled("c1")
    \/ ChainStep

SpecLife == InitCreate /\ [][NextLife]_vars

\* createTransfer alone, over the whole range of its arguments
WideTransferArgs ==
    LET base == [seqno : 0..MaxSeqno, secretKey : SecretKeys,
                 messages : {<<>>, <<internal(Msg("EQA", Undefined))>>,
                             <<internal(Msg("EQB", Bool(FALSE))),
                               internal(Msg("EQA", Undefined))>>},
                 sendMode : {Undefined, Null, Num(0), Num(1), Num(3)},
                 timeout : {Undefined, Null, Num(60)}]
    IN  base \cup {a @@ [walletId |-> 7] : a \in base}

NextTransfer ==
    \/ \E w \in Wallets, a \in WideTransferArgs, f \in SignFaults :
          createTransferCall("c1", w, a, f)
    \/ Settled("c1")

SpecTransfer == Init /\ [][NextTransfer]_vars

----------------------------------------------------------------------------
(* Reading a call's record *)

IsSender(call) == call.op \in {"sender.send", "sender.sends"}

Kinds(call) == [i \in 1..Len(call.trace) |-> call.trace[i].kind]

Externals(call) == {i \in 1..Len(call.trace) : call.trace[i].kind = "external"}

RECURSIVE BitsToNat(_)
BitsToNat(bits) ==
    IF bits = <<>> THEN 0
    ELSE 2 * BitsToNat(SubSeq(bits, 1, Len(bits) - 1)) + bits[Len(bits)]

\* the seqno the provider handed this call: 0 from a state that is not
\* active, else the number on the stack of the get; Undefined before that
ReadValue(call) ==
    LET tr == call.trace
    IN  IF Len(tr) >= 1 /\ tr[1].kind = "getState" /\ tr[1].ok
        THEN IF tr[1].ret.state.type # "active" THEN Num(0)
             ELSE IF Len(tr) >= 2 /\ tr[2].kind = "get" /\ tr[2].ok
                  THEN Num(tr[2].ret[1].value)
                  ELSE Undefined
        ELSE Undefined

----------------------------------------------------------------------------
(* Claims *)

\* C1: in sender.send and sender.sends the seqno read has completed before the
\* transfer is built and before provider.external is called, and the transfer
\* built and submitted carries the seqno that this call's own read returned.
C1_SeqnoReadBeforeTransfer ==
    \A c \in Callers :
        LET call == calls[c]
        IN  IsSender(call) =>
              /\ call.pc = "external" => call.signed # Undefined
              /\ call.pc = "seqno" => /\ call.signed = Undefined
                                      /\ call.seqno # Undefined
                                      /\ call.seqno = ReadValue(call)
              /\ call.signed # Undefined =>
                    /\ ReadValue(call) # Undefined
                    /\ call.signed.seqno = ReadValue(call).v
                    /\ call.seqno = ReadValue(call)
              /\ \A i \in Externals(call) :
                    /\ i = Len(call.trace)
                    /\ ReadValue(call) # Undefined
                    /\ call.trace[i].message.signedTransfer.seqno
                          = ReadValue(call).v

C1_Witness ==
    \E c \in Callers :
        /\ IsSender(calls[c])
        /\ calls[c].status = "ok"
        /\ Len(calls[c].trace) = 3
        /\ calls[c].trace[3].message.signedTransfer.seqno = MaxSeqno
        /\ calls[c].trace[2].ret[1].value = MaxSeqno

\* C2 as stated: every exposed call makes at most one provider call.
C2_AtMostOneRoundTrip ==
    \A c \in Callers : Len(calls[c].trace) <= 1

\* C2 amended: each exposed call makes its provider calls one after another
\* and at most: getBalance one (getState); getSeqno two (getState, then get);
\* send and sendTransfer one (external); sender.send and sender.sends three
\* (getState, get, external); createTransfer none.
C2_BoundedRoundTrips ==
    \A c \in Callers :
        LET call == calls[c]
            k == Kinds(call)
        IN  /\ call.op = "getBalance" => k \in {<<>>, <<"getState">>}
            /\ call.op = "getSeqno" =>
                  k \in {<<>>, <<"getState">>, <<"getState", "get">>}
            /\ call.op \in {"send", "sendTransfer"} => k \in {<<>>, <<"external">>}
            /\ IsSender(call) =>
                  k \in {<<>>, <<"getState">>, <<"getState", "get">>,
                         <<"getState", "external">>,
                         <<"getState", "get", "external">>}
            /\ call.op \in {"createTransfer", "idle"} => k = <<>>

C2_Witness ==
    \E c \in Callers :
        /\ calls[c].op = "sender.send"
        /\ calls[c].status = "ok"
        /\ Kinds(calls[c]) = <<"getState", "get", "external">>

\* C3: whenever the provider rejects a call, and whenever the signing routine
\* throws, the operation ends in failure with that very error; the failing
\* provider call is the last one the operation makes, nothing is submitted
\* after a signing error, no call is made twice, an operation fails only for
\* one of these errors, and a sender whose seqno read failed never calls
\* provider.external.
C3_ErrorsPropagate ==
    \A c \in Callers :
        LET call == calls[c]
            tr == call.trace
        IN  /\ \A i \in 1..Len(tr) :
                  ~tr[i].ok => /\ i = Len(tr)
                               /\ call.status = "error"
                               /\ call.error = tr[i].error
            /\ \A i, j \in 1..Len(tr) : tr[i].kind = tr[j].kind => i = j
            /\ call.status = "error" =>
                  \/ Len(tr) >= 1 /\ ~tr[Len(tr)].ok
                  \/ /\ call.error \in SignErrors
                     /\ call.signed # Undefined
                     /\ Externals(call) = {}
            /\ call.signThrew # NoFault =>
                  /\ call.pc = "done"
                  /\ call.status = "error"
                  /\ call.error = call.signThrew
                  /\ call.transfer = Undefined
                  /\ Externals(call) = {}
                  /\ \A i \in 1..Len(tr) : tr[i].ok
            /\ call.status = "error" =>
                  (call.signThrew # NoFault \/ (Len(tr) >= 1 /\ ~tr[Len(tr)].ok))
            /\ call.status = "ok" => call.error = NoFault
            /\ (IsSender(call) /\ ReadValue(call) = Undefined) =>
                  /\ Externals(call) = {}
                  /\ call.signed = Undefined
                  /\ call.pc \in {"getState", "get", "done"}

C3_Witness ==
    \E c, d \in Callers :
        /\ IsSender(calls[c])
        /\ calls[c].status = "error"
        /\ calls[c].error \in ProviderErrors
        /\ Kinds(calls[c]) = <<"getState", "get">>
        /\ IsSender(calls[d])
        /\ calls[d].status = "error"
        /\ calls[d].error \in SignErrors
        /\ calls[d].signThrew = calls[d].error
        /\ Kinds(calls[d]) = <<"getState">>

Built == {w \in Wallets : wallets[w].state = "ok"}

\* C4: two wallets created with equal workchain, publicKey and resolved
\* walletId have equal init.code, init.data and address, and a wallet's
\* triple, once computed by its construction, is what create() made it from
\* then on: no step of any operation, and no other construction, changes it.
C4_DeterministicTriple ==
    /\ [](\A v, w \in Built :
            (/\ wallets[v].workchain = wallets[w].workchain
             /\ wallets[v].publicKey = wallets[w].publicKey
             /\ wallets[v].walletId = wallets[w].walletId)
            => /\ wallets[v].init.code = wallets[w].init.code
               /\ wallets[v].init.data = wallets[w].init.data
               /\ wallets[v].address = wallets[w].address)
    /\ [](\A w \in Built : wallets[w] = create(ctorArgs[w]))
    /\ [][\A w \in Built :
            /\ wallets'[w].init = wallets[w].init
            /\ wallets'[w].address = wallets[w].address]_vars

C4_Witness ==
    /\ Built = Wallets
    /\ calls["c1"].op = "sender.send"
    /\ calls["c1"].this = "w1"
    /\ calls["c1"].status = "ok"
    /\ Kinds(calls["c1"]) = <<"getState", "get", "external">>
    /\ ctorArgs["w1"].walletId = Undefined
    /\ ctorArgs["w2"].walletId = Num(DefaultWalletIdBase)
    /\ ctorArgs["w1"].workchain = 0
    /\ ctorArgs["w2"].workchain = 0
    /\ ctorArgs["w1"].publicKey = ctorArgs["w2"].publicKey
    /\ wallets["w1"].address = wallets["w2"].address

\* C5: no operation changes a constructed wallet: workchain, publicKey,
\* walletId, init and address stay what construction made them, whatever
\* calls run and however they interleave.
C5_WalletImmutable ==
    [][\A w \in Built :
          /\ wallets'[w].workchain = wallets[w].workchain
          /\ wallets'[w].publicKey = wallets[w].publicKey
          /\ wallets'[w].walletId = wallets[w].walletId
          /\ wallets'[w].init = wallets[w].init
          /\ wallets'[w].address = wallets[w].address]_vars

C5_Witness ==
    /\ wallets = [w \in Wallets |-> create(ctorArgs[w])]
    /\ \E c, d \in Callers :
          /\ calls[c].op = "sender.sends"
          /\ calls[c].status = "ok"
          /\ calls[d].op = "sendTransfer"
          /\ calls[d].status = "ok"
          /\ calls[c].this = calls[d].this

\* C6: getSeqno returns 0 when the state it read is not active, and then has
\* not called provider.get; when the state is active it returns the number
\* the "seqno" getter produced, asked with no arguments.  No call asks a
\* getter of a contract whose state it read as not active.
C6_GetSeqno ==
    \A c \in Callers :
        LET call == calls[c]
            tr == call.trace
        IN  /\ (call.op = "getSeqno" /\ call.status = "ok") =>
                  /\ tr[1].kind = "getState"
                  /\ IF tr[1].ret.state.type # "active"
                     THEN Len(tr) = 1 /\ call.result = Num(0)
                     ELSE /\ Len(tr) = 2
                          /\ tr[2].kind = "get"
                          /\ tr[2].name = "seqno"
                          /\ tr[2].args = <<>>
                          /\ call.result = Num(tr[2].ret[1].value)
            /\ \A i \in 1..Len(tr) :
                  tr[i].kind = "get" =>
                      /\ i = 2
                      /\ tr[1].ok
                      /\ tr[1].ret.state.type = "active"
                      /\ tr[i].name = "seqno"
                      /\ tr[i].args = <<>>
            /\ call.pc = "get" => /\ tr[1].ret.state.type = "active"
                                  /\ call.req = [name |-> "seqno", args |-> <<>>]

C6_Witness ==
    \E c, d \in Callers :
        /\ calls[c].op = "getSeqno"
        /\ calls[c].status = "ok"
        /\ calls[c].trace[1].ret.state.type = "frozen"
        /\ calls[c].result = Num(0)
        /\ chain.seqno = MaxSeqno
        /\ calls[d].op = "getSeqno"
        /\ calls[d].status = "ok"
        /\ calls[d].result = Num(MaxSeqno)

\* C7: a constructed wallet's walletId is the walletId argument when that is
\* neither null nor undefined (0 included) and 698983191 + workchain
\* otherwise; the data cell holds a 32-bit zero seqno, then the resolved
\* walletId in 32 bits, then the public key, then one zero bit.
C7_WalletIdAndData ==
    \A w \in Built :
        LET a == ctorArgs[w]
            bits == wallets[w].init.data.bits
            n == Len(a.publicKey)
        IN  /\ (a.walletId # Null /\ a.walletId # Undefined) =>
                  wallets[w].walletId = a.walletId.v
            /\ (a.walletId = Null \/ a.walletId = Undefined) =>
                  /\ wallets[w].walletId = 698983191 + a.workchain
                  /\ a.workchain = 0 => wallets[w].walletId = 698983191
                  /\ a.workchain = -1 => wallets[w].walletId = 698983190
            /\ Len(bits) = 32 + 32 + 8 * n + 1
            /\ BitsToNat(SubSeq(bits, 1, 32)) = 0
            /\ BitsToNat(SubSeq(bits, 33, 64)) = wallets[w].walletId
            /\ \A i \in 1..n :
                  BitsToNat(SubSeq(bits, 64 + 8 * (i - 1) + 1, 64 + 8 * i))
                      = a.publicKey[i]
            /\ bits[Len(bits)] = 0

C7_Witness ==
    /\ Built = Wallets
    /\ ctorArgs["w1"].walletId = Num(0)
    /\ wallets["w1"].walletId = 0
    /\ ctorArgs["w2"].walletId = Null
    /\ ctorArgs["w2"].workchain = -1
    /\ wallets["w2"].walletId = 698983190

\* C8: createTransfer hands the signing helper the caller's seqno, messages,
\* timeout (and every other argument) unchanged, the caller's sendMode when
\* that is neither null nor undefined (0 included) and PAY_GAS_SEPARATELY
\* otherwise, and this wallet's walletId whatever walletId the caller gave.
C8_CreateTransferArgs ==
    \A c \in Callers :
        LET call == calls[c]
            a == call.args
            h == call.signed
        IN  (call.op \in {"createTransfer", "sendTransfer"} /\ call.pc # "idle") =>
              /\ h # Undefined
              /\ DOMAIN h = DOMAIN a \cup {"sendMode", "walletId"}
              /\ h.seqno = a.seqno
              /\ h.messages = a.messages
              /\ h.timeout = a.timeout
              /\ h.secretKey = a.secretKey
              /\ (a.sendMode # Null /\ a.sendMode # Undefined) =>
                    h.sendMode = a.sendMode.v
              /\ (a.sendMode = Null \/ a.sendMode = Undefined) => h.sendMode = 1
              /\ h.walletId = wallets[call.this].walletId
              /\ call.status = "ok" => call.result = [signedTransfer |-> h]

C8_Witness ==
    \E c \in Callers :
        /\ calls[c].op = "createTransfer"
        /\ calls[c].status = "ok"
        /\ calls[c].args.sendMode = Num(0)
        /\ calls[c].signed.sendMode = 0
        /\ "walletId" \in DOMAIN calls[c].args
        /\ calls[c].args.walletId # wallets[calls[c].this].walletId
        /\ calls[c].signed.walletId = wallets[calls[c].this].walletId
        /\ calls[c].args.timeout = Num(60)
        /\ Len(calls[c].args.messages) = 2

\* the seqno the contract had at each fulfilled read of the call
ReadSeqnos(call) ==
    {call.trace[i].chainSeqno :
        i \in {j \in 1..Len(call.trace) :
                 call.trace[j].kind \in {"getState", "get"} /\ call.trace[j].ok}}

ReadActive(call) == call.trace[1].ret.state.type = "active"

SameWalletSenders(c, d) ==
    /\ c # d
    /\ IsSender(calls[c]) /\ IsSender(calls[d])
    /\ calls[c].this = calls[d].this
    /\ ReadValue(calls[c]) # Undefined
    /\ ReadValue(calls[d]) # Undefined

\* C9 as stated: two sender calls on the same wallet in flight together,
\* between whose reads the chain's seqno did not advance, have read the same
\* seqno and sign the same seqno.
C9_SameSeqnoUnlessAdvanced ==
    \A c, d \in Callers :
        (/\ SameWalletSenders(c, d)
         /\ calls[c].status = "running" /\ calls[d].status = "running"
         /\ Cardinality(ReadSeqnos(calls[c]) \cup ReadSeqnos(calls[d])) = 1)
        => /\ ReadValue(calls[c]) = ReadValue(calls[d])
           /\ (calls[c].signed # Undefined /\ calls[d].signed # Undefined) =>
                 calls[c].signed.seqno = calls[d].signed.seqno

\* C9 amended: senders are not serialised.  Two sender calls on the same
\* wallet, between whose reads the chain's seqno did not advance and the
\* contract did not change between active and not active, have read the same
\* seqno, and each signs and submits a transfer carrying it; and a call never
\* waits for another: a caller that is idle can start a sender call, a call
\* waiting on the provider can take the provider's answer, and a sender
\* holding its seqno can go on to sign and submit, whatever the other caller
\* is doing.
C9_SendersNotSerialised ==
    /\ \A c, d \in Callers :
          (/\ SameWalletSenders(c, d)
           /\ Cardinality(ReadSeqnos(calls[c]) \cup ReadSeqnos(calls[d])) = 1
           /\ ReadActive(calls[c]) = ReadActive(calls[d]))
          => /\ ReadValue(calls[c]) = ReadValue(calls[d])
             /\ calls[c].pc \in {"seqno", "external", "done"}
             /\ calls[c].signed # Undefined =>
                   calls[c].signed.seqno = ReadValue(calls[d]).v
             /\ \A i \in Externals(calls[c]) :
                   calls[c].trace[i].message.signedTransfer.seqno
                      = ReadValue(calls[d]).v
    /\ \A c \in Callers :
          /\ calls[c].pc = "idle" =>
                \A w \in Built :
                    ENABLED (\E k \in SecretKeys, a \in SenderSendArgs :
                                sender_send(c, w, k, a))
          /\ calls[c].pc = "getState" =>
                ENABLED ProviderGetState(c, NoFault)
          /\ calls[c].pc = "get" => ENABLED ProviderGet(c, NoFault)
          /\ calls[c].pc = "seqno" => ENABLED SenderResume(c, NoFault)
          /\ calls[c].pc = "external" => ENABLED ProviderExternal(c, NoFault)

C9_Witness ==
    /\ IsSender(calls["c1"]) /\ IsSender(calls["c2"])
    /\ calls["c1"].this = calls["c2"].this
    /\ calls["c1"].pc = "external"
    /\ calls["c2"].pc = "external"
    /\ calls["c1"].signed.seqno = MaxSeqno
    /\ calls["c2"].signed.seqno = MaxSeqno
    /\ ReadSeqnos(calls["c1"]) \cup ReadSeqnos(calls["c2"]) = {MaxSeqno}
    /\ ReadActive(calls["c1"]) /\ ReadActive(calls["c2"])

\* C10: a successful send, sendTransfer, sender.send or sender.sends has
\* called provider.external exactly once; sender.send with a transfer of one
\* internal message, sender.sends with one transfer holding all of args.msgs
\* in their order under one seqno; getBalance and getSeqno never call
\* provider.external; sendTransfer signs the caller's seqno and reads nothing.
C10_OneExternalPerWrite ==
    \A c \in Callers :
        LET call == calls[c]
            tr == call.trace
        IN  /\ (call.op \in {"send", "sendTransfer", "sender.send", "sender.sends"}
                /\ call.status = "ok") =>
                  /\ Cardinality(Externals(call)) = 1
                  /\ tr[Len(tr)].kind = "external"
                  /\ tr[Len(tr)].ok
            /\ call.op \in {"getBalance", "getSeqno", "createTransfer"} =>
                  Externals(call) = {}
            /\ (call.op = "send" /\ call.status = "ok") =>
                  tr[1].message = call.args.message
            /\ (call.op = "sender.send" /\ call.status = "ok") =>
                  LET m == tr[Len(tr)].message.signedTransfer.messages
                  IN  /\ Len(m) = 1
                      /\ m[1].info.dest = call.args.args.to
                      /\ m[1].info.value = call.args.args.value
            /\ (call.op = "sender.sends" /\ call.status = "ok") =>
                  LET m == tr[Len(tr)].message.signedTransfer.messages
                  IN  /\ Len(m) = Len(call.args.args.msgs)
                      /\ \A i \in 1..Len(m) :
                            /\ m[i].info.dest = call.args.args.msgs[i].to
                            /\ m[i].info.value = call.args.args.msgs[i].value
                      /\ tr[Len(tr)].message.signedTransfer.seqno
                            = ReadValue(call).v
            /\ call.op = "sendTransfer" =>
                  /\ \A i \in 1..Len(tr) : tr[i].kind = "external"
                  /\ call.signed.seqno = call.args.seqno
                  /\ \A i \in Externals(call) :
                        tr[i].message.signedTransfer.seqno = call.args.seqno

C10_Witness ==
    \E c, d \in Callers :
        /\ calls[c].op = "sender.sends"
        /\ calls[c].status = "ok"
        /\ Len(calls[c].trace[Len(calls[c].trace)].message.signedTransfer.messages) = 2
        /\ calls[d].op = "sendTransfer"
        /\ calls[d].status = "ok"
        /\ chain.seqno # calls[d].args.seqno

====
